---- MODULE Spec2Model ----
(***************************************************************************)
(* Moving-average trading strategies (strategies.py) and the benchmark     *)
(* driver that runs them (profiler.py).                                    *)
(*                                                                         *)
(* Prices, running sums and averages are Python floats.  They are modelled *)
(* as binary floating-point numbers with a Precision-bit significand and   *)
(* round-to-nearest, ties-to-even (IEEE 754 binary64 has 53 bits; the      *)
(* model keeps the rounding rule and shrinks the significand).  A float is *)
(* held as an integer count of units of 2^-FracBits.                       *)
(***************************************************************************)
EXTENDS Integers, Sequences, FiniteSets, TLC

\* ------------------------------------------------------------------ bounds
Precision == 5
MaxTicks == 4
MaxWindow == 3
MinWindowArg == 2
BenchTicks == 3
MaxRepeats == 2
MaxCalls == 3

\* ------------------------------------------------- floating-point numbers
RECURSIVE Pow2(_)
Pow2(n) == IF n <= 0 THEN 1 ELSE 2 * Pow2(n - 1)

FracBits == Precision + 3
Unit == Pow2(FracBits)

\* float(n) for an integer n that needs at most Precision bits
Float(n) == n * Unit

\* round-half-even of the non-negative rational num/den to an integer
RoundHalfEven(num, den) ==
    LET q == num \div den
        r == num % den
    IN  IF 2 * r < den THEN q
        ELSE IF 2 * r > den THEN q + 1
        ELSE IF q % 2 = 0 THEN q ELSE q + 1

TwoToPrecision == Pow2(Precision)

\* the spacing 2^e (e >= 0 least) of the floats around the rational num/den:
\* num/den < 2^Precision * 2^e
RECURSIVE Spacing(_, _, _)
Spacing(num, den, step) ==
    IF num < TwoToPrecision * step * den THEN step ELSE Spacing(num, den, 2 * step)

RoundTo(num, den, step) == RoundHalfEven(num, den * step) * step

\* the float nearest to the rational num/den (num in units; den > 0)
RoundFloat(num, den) ==
    IF num < 0 THEN 0 - RoundTo(0 - num, den, Spacing(0 - num, den, 1))
    ELSE RoundTo(num, den, Spacing(num, den, 1))

fadd(a, b) == RoundFloat(a + b, 1)
fsub(a, b) == RoundFloat(a - b, 1)
\* a / n for a float a and a positive Python int n
fdiv(a, n) == RoundFloat(a, n)

\* builtin sum() over a list of floats: left to right, starting from int 0
\* (the plain summation of CPython up to 3.11; later versions compensate)
RECURSIVE SumTo(_, _)
SumTo(xs, n) == IF n = 0 THEN 0 ELSE fadd(SumTo(xs, n - 1), xs[n])

sum(xs) == SumTo(xs, Len(xs))

\* ------------------------------------------------------------------ inputs
Big == Pow2(Precision)
Prices == {Float(1), Float(2), Float(Big)}
Symbols == {"XYZ", "ABC"}
Timestamps == {1, 2}
MarketDataPoint == [timestamp : Timestamps, symbol : Symbols, price : Prices]
StrategyNames == {"naive", "opt", "win"}
WindowArgs == (0 - MinWindowArg) .. MaxWindow


\* ---------------------------------------------------------------- signals
\* mutant of _action: BUY on price >= avg
_action_nonstrict(price, avg) ==
    IF price >= avg THEN "BUY"
    ELSE IF price < avg THEN "SELL"
    ELSE "HOLD"

_action(price, avg) ==
    IF price > avg THEN "BUY"
    ELSE IF price < avg THEN "SELL"
    ELSE "HOLD"

Signal(tick, avg) ==
    [timestamp |-> tick.timestamp, symbol |-> tick.symbol,
     action |-> _action(tick.price, avg), price |-> tick.price, reference |-> avg]

\* the outcome of one generate_signals call: the object afterwards, the divisor
\* of the mean, the exception raised ("None" when it returns) and the list returned
Returned(self, d, avg, tick) ==
    [self |-> self, divisor |-> d, raised |-> "None", ret |-> <<Signal(tick, avg)>>]

Raised(self, d) ==
    [self |-> self, divisor |-> d, raised |-> "ZeroDivisionError", ret |-> <<>>]

\* ----------------------------------------------- NaiveMovingAverageStrategy
Naive_init == [_prices |-> <<>>, _last_symbol |-> "None"]

Naive_reset(self) == [self EXCEPT !._prices = <<>>, !._last_symbol = "None"]

\* mutant of Naive_generate_signals: a per-symbol average, the history restarts
\* when the symbol changes
Naive_generate_signals_per_symbol(self, tick) ==
    LET s0 == IF self._last_symbol \in {"None", tick.symbol} THEN self
              ELSE [self EXCEPT !._prices = <<>>]
        s1 == [s0 EXCEPT !._prices = Append(@, tick.price), !._last_symbol = tick.symbol]
        d == Len(s1._prices)
    IN  Returned(s1, d, fdiv(sum(s1._prices), d), tick)

Naive_generate_signals(self, tick) ==
    LET s1 == [self EXCEPT !._prices = Append(@, tick.price)]
        d == Len(s1._prices)
    IN  IF d = 0 THEN Raised(s1, d)
        ELSE Returned(s1, d, fdiv(sum(s1._prices), d), tick)

\* --------------------------------------- OptimizedCumulativeAverageStrategy
Optimized_init == [_sum |-> 0, _count |-> 0]

\* mutant of Optimized_reset: the count is not cleared
Optimized_reset_keeps_count(self) == [self EXCEPT !._sum = 0]

Optimized_reset(self) == [self EXCEPT !._sum = 0, !._count = 0]

\* mutant of Optimized_generate_signals: the mean is taken before the price is added
Optimized_generate_signals_stale_sum(self, tick) ==
    LET s1 == [self EXCEPT !._sum = fadd(@, tick.price), !._count = @ + 1]
        d == s1._count
    IN  Returned(s1, d, fdiv(self._sum, d), tick)

Optimized_generate_signals(self, tick) ==
    LET s1 == [self EXCEPT !._sum = fadd(@, tick.price), !._count = @ + 1]
        d == s1._count
    IN  IF d = 0 THEN Raised(s1, d)
        ELSE Returned(s1, d, fdiv(s1._sum, d), tick)

\* -------------------------------------------- WindowedMovingAverageStrategy
\* mutant of Windowed_init: window_size = 0 is let through
Windowed_init_allows_zero(window_size) ==
    IF window_size < 0
    THEN [raised |-> "ValueError", self |-> <<>>]
    ELSE [raised |-> "None",
          self |-> [window_size |-> window_size, _window |-> <<>>, _sum |-> 0]]

\* __init__: raises ValueError for a non-positive window_size
Windowed_init(window_size) ==
    IF window_size <= 0
    THEN [raised |-> "ValueError", self |-> <<>>]
    ELSE [raised |-> "None",
          self |-> [window_size |-> window_size, _window |-> <<>>, _sum |-> 0]]

\* mutant of Windowed_reset: the running sum is not cleared
Windowed_reset_keeps_sum(self) == [self EXCEPT !._window = <<>>]

Windowed_reset(self) == [self EXCEPT !._window = <<>>, !._sum = 0]

\* append the price and add it to the running sum
Windowed_push(self, tick) ==
    [self EXCEPT !._window = Append(@, tick.price), !._sum = fadd(@, tick.price)]

\* mutant of Windowed_evict: evicts as soon as the window is at its size
Windowed_evict_at_size(self) ==
    IF Len(self._window) >= self.window_size
    THEN [self EXCEPT !._window = Tail(@), !._sum = fsub(@, Head(self._window))]
    ELSE self

\* evict the oldest price when the window is over its size
Windowed_evict(self) ==
    IF Len(self._window) > self.window_size
    THEN [self EXCEPT !._window = Tail(@), !._sum = fsub(@, Head(self._window))]
    ELSE self

\* mutant of Windowed_generate_signals: no signal until the window is full
Windowed_generate_signals_silent_warmup(self, tick) ==
    LET s1 == Windowed_evict(Windowed_push(self, tick))
        d == Len(s1._window)
    IN  IF d < s1.window_size
        THEN [self |-> s1, divisor |-> d, raised |-> "None", ret |-> <<>>]
        ELSE Returned(s1, d, fdiv(s1._sum, d), tick)

\* mutant of Windowed_generate_signals: the mean is always taken over window_size
Windowed_generate_signals_fixed_divisor(self, tick) ==
    LET s1 == Windowed_evict(Windowed_push(self, tick))
        d == s1.window_size
    IN  Returned(s1, d, fdiv(s1._sum, d), tick)

Windowed_generate_signals(self, tick) ==
    LET s1 == Windowed_evict(Windowed_push(self, tick))
        d == Len(s1._window)
    IN  IF d = 0 THEN Raised(s1, d)
        ELSE Returned(s1, d, fdiv(s1._sum, d), tick)

\* ------------------------------------------------------------------- state
VARIABLES
    naive,      \* the NaiveMovingAverageStrategy instance
    opt,        \* the OptimizedCumulativeAverageStrategy instance
    win,        \* the WindowedMovingAverageStrategy instance (<<>> when __init__ raised)
    ctor,       \* the WindowedMovingAverageStrategy(window_size) call: its argument and outcome
    ret,        \* per strategy, the list its last generate_signals call returned
    last,       \* per strategy, the tick of its last generate_signals call since the reset (<<>> if none)
    out,        \* per strategy, the (action, price, reference) of the signals collected since its last reset
    fed,        \* per strategy, the prices fed since its last reset
    hist,       \* per strategy, its call history in short (see Constructed, AfterReset)
    divisor,    \* per strategy, the divisor of the mean in its last generate_signals call
    raised,     \* per strategy, the exception its last call raised, "None" if it returned
    bench,      \* benchmark_strategies: its arguments, loop position, results and exception
    run,        \* run_strategy: its position, loop index and total
    threads     \* the threads calling generate_signals on the windowed instance: their frames

vars == <<naive, opt, win, ctor, ret, last, out, fed, hist, divisor, raised, bench, run, threads>>

OutEntry(sig) == [action |-> sig.action, price |-> sig.price, reference |-> sig.reference]
OutEntries(sigs) == [i \in 1..Len(sigs) |-> OutEntry(sigs[i])]

\* Call history of one instance: lastOp is its last call; resetsBefore counts the
\* consecutive reset calls that preceded the current run of generate_signals
\* calls (0: the run began at construction; capped at 2); usedBefore tells
\* whether the instance had been fed before those resets; shuffled tells
\* whether, in the current run, some tick had another symbol than the tick
\* before it and an earlier timestamp.
Constructed ==
    [lastOp |-> "init", resetsBefore |-> 0, usedBefore |-> FALSE,
     shuffled |-> FALSE]

AfterReset(h) ==
    [lastOp |-> "reset",
     resetsBefore |-> IF h.lastOp = "reset" THEN (IF h.resetsBefore < 2 THEN h.resetsBefore + 1 ELSE 2) ELSE 1,
     usedBefore |-> IF h.lastOp = "reset" THEN h.usedBefore ELSE h.lastOp = "generate_signals",
     shuffled |-> FALSE]

\* prev: the tick handed over before t in the current run, <<>> if none
AfterGenerate(h, prev, t) ==
    [h EXCEPT !.lastOp = "generate_signals",
              !.shuffled = @ \/ (/\ prev # <<>>
                                  /\ prev[1].symbol # t.symbol
                                  /\ prev[1].timestamp > t.timestamp)]

\* no benchmark is running
BenchIdle ==
    [ticks |-> <<>>, sizes |-> <<>>, repeats |-> 1, cprofile_on_size |-> 1,
     n_idx |-> 1, s_idx |-> 1, phase |-> "idle", rep |-> 1, results |-> <<>>, raised |-> "None"]

RunIdle == [pc |-> "idle", i |-> 0, total |-> 0]

\* the threads that may share the windowed instance
Threads == {1, 2}

\* a thread outside generate_signals; tick, old and avg are the call's locals
IdleFrame == [pc |-> "idle", tick |-> <<>>, old |-> 0, avg |-> 0]

\* one sequential caller: no thread is inside a call
ThreadsIdle == [serialized |-> TRUE, frame |-> [th \in Threads |-> IdleFrame]]

Init ==
    /\ bench = BenchIdle
    /\ run = RunIdle
    /\ threads = ThreadsIdle
    /\ naive = Naive_init
    /\ opt = Optimized_init
    /\ \E ws \in WindowArgs :
          /\ ctor = [window_size |-> ws, raised |-> Windowed_init(ws).raised]
          /\ win = Windowed_init(ws).self
    /\ ret = [s \in StrategyNames |-> <<>>]
    /\ last = [s \in StrategyNames |-> <<>>]
    /\ out = [s \in StrategyNames |-> <<>>]
    /\ fed = [s \in StrategyNames |-> <<>>]
    /\ hist = [s \in StrategyNames |-> Constructed]
    /\ divisor = [s \in StrategyNames |-> 1]
    /\ raised = [s \in StrategyNames |-> "None"]

\* the instance the caller holds under name s
Instance(s) ==
    CASE s = "naive" -> naive
      [] s = "opt" -> opt
      [] s = "win" -> win

\* strategy.generate_signals(t), dispatched on the class of the instance
generate_signals(s, self, t) ==
    CASE s = "naive" -> Naive_generate_signals(self, t)
      [] s = "opt" -> Optimized_generate_signals(self, t)
      [] s = "win" -> Windowed_generate_signals(self, t)

\* strategy.reset(), dispatched on the class of the instance
reset(s, self) ==
    CASE s = "naive" -> Naive_reset(self)
      [] s = "opt" -> Optimized_reset(self)
      [] s = "win" -> Windowed_reset(self)

\* The caller hands tick t to each of its strategies, as the tests and the
\* benchmark do with one tick list for all of them; the instances share nothing,
\* so the order of the three calls does not matter.
GenerateSignals ==
    /\ ctor.raised = "None"
    /\ \A s \in StrategyNames : Len(fed[s]) < MaxTicks
    /\ \E t \in MarketDataPoint :
          \E r \in {[s \in StrategyNames |-> generate_signals(s, Instance(s), t)]} :
              /\ naive' = r["naive"].self
              /\ opt' = r["opt"].self
              /\ win' = r["win"].self
              /\ ret' = [s \in StrategyNames |-> r[s].ret]
              /\ last' = [s \in StrategyNames |-> <<t>>]
              /\ out' = [s \in StrategyNames |-> out[s] \o OutEntries(r[s].ret)]
              /\ fed' = [s \in StrategyNames |-> Append(fed[s], t.price)]
              /\ hist' = [s \in StrategyNames |-> AfterGenerate(hist[s], last[s], t)]
              /\ divisor' = [s \in StrategyNames |-> r[s].divisor]
              /\ raised' = [s \in StrategyNames |-> r[s].raised]
    /\ UNCHANGED <<ctor, bench, run, threads>>

\* The caller calls reset() on each of its strategies (run_strategy and the
\* tests' signals_only start every run with it).
Reset ==
    /\ ctor.raised = "None"
    /\ naive' = reset("naive", naive)
    /\ opt' = reset("opt", opt)
    /\ win' = reset("win", win)
    /\ ret' = [s \in StrategyNames |-> <<>>]
    /\ last' = [s \in StrategyNames |-> <<>>]
    /\ out' = [s \in StrategyNames |-> <<>>]
    /\ fed' = [s \in StrategyNames |-> <<>>]
    /\ hist' = [s \in StrategyNames |-> AfterReset(hist[s])]
    /\ raised' = [s \in StrategyNames |-> "None"]
    /\ UNCHANGED <<ctor, divisor, bench, run, threads>>

Next ==
    \/ GenerateSignals
    \/ Reset

Spec == Init /\ [][Next]_vars

\* ------------------------------------------------------- reference notions
\* a freshly constructed instance of the class of s
Fresh(s) ==
    CASE s = "naive" -> Naive_init
      [] s = "opt" -> Optimized_init
      [] s = "win" -> Windowed_init(ctor.window_size).self

\* the signals (action, price, reference) an instance in state self emits when
\* fed ticks in order
RECURSIVE RunFrom(_, _, _)
RunAfter(s, r, ticks) == OutEntries(r.ret) \o RunFrom(s, r.self, ticks)

RunFrom(s, self, ticks) ==
    IF ticks = <<>> THEN <<>>
    ELSE RunAfter(s, generate_signals(s, self, Head(ticks)), Tail(ticks))

\* ticks of one symbol and one timestamp carrying the given prices
PlainTicks(prices) ==
    [i \in 1..Len(prices) |-> [timestamp |-> 1, symbol |-> "XYZ", price |-> prices[i]]]

Min(a, b) == IF a < b THEN a ELSE b
\* the last n elements of xs
LastN(xs, n) == SubSeq(xs, Len(xs) - Min(n, Len(xs)) + 1, Len(xs))

\* --------------------------------------------------- benchmark (profiler.py)
\* the strategies list main() builds
Strategies == <<"naive", "opt", "win">>

\* Strategy.name: the class name
name(s) ==
    CASE s = "naive" -> "NaiveMovingAverageStrategy"
      [] s = "opt" -> "OptimizedCumulativeAverageStrategy"
      [] s = "win" -> "WindowedMovingAverageStrategy"

BenchPrices == {Float(1), Float(Big)}
\* the sizes lists tried: two different sizes, one possibly past the ticks
BenchSizes == {<<a, b>> : a \in 1..BenchTicks, b \in 2..(BenchTicks + 1)} \ {<<a, a>> : a \in 1..BenchTicks}

InitBench ==
    /\ naive = Naive_init
    /\ opt = Optimized_init
    /\ \E ws \in {1, MaxWindow} :
          /\ ctor = [window_size |-> ws, raised |-> Windowed_init(ws).raised]
          /\ win = Windowed_init(ws).self
    /\ ret = [s \in StrategyNames |-> <<>>]
    /\ last = [s \in StrategyNames |-> <<>>]
    /\ out = [s \in StrategyNames |-> <<>>]
    /\ fed = [s \in StrategyNames |-> <<>>]
    /\ hist = [s \in StrategyNames |-> Constructed]
    /\ divisor = [s \in StrategyNames |-> 1]
    /\ raised = [s \in StrategyNames |-> "None"]
    /\ \E prices \in [1..BenchTicks -> BenchPrices], sizes \in BenchSizes, repeats \in 1..MaxRepeats :
          \E c \in {sizes[1], sizes[2]} :
              bench = [BenchIdle EXCEPT !.ticks = PlainTicks(prices), !.sizes = sizes,
                                        !.repeats = repeats, !.cprofile_on_size = c,
                                        !.phase = "size"]
    /\ run = RunIdle
    /\ threads = ThreadsIdle

\* n, subset = ticks[:n] and strat of the current iteration
BenchN == bench.sizes[bench.n_idx]
Subset == SubSeq(bench.ticks, 1, Min(BenchN, Len(bench.ticks)))
Strat == Strategies[bench.s_idx]

\* the caller's variable for instance s is set to self, the others are left alone
SetInstance(s, self) ==
    /\ naive' = IF s = "naive" THEN self ELSE naive
    /\ opt' = IF s = "opt" THEN self ELSE opt
    /\ win' = IF s = "win" THEN self ELSE win

StartRun == [pc |-> "reset", i |-> 0, total |-> 0]

\* for n in sizes: subset = ticks[:n]; raise ValueError when it is short;
\* otherwise enter the strategies loop with time_run's first repeat
BenchSize ==
    /\ bench.phase = "size"
    /\ IF Len(Subset) < BenchN
       THEN /\ bench' = [bench EXCEPT !.phase = "raised", !.raised = "ValueError"]
            /\ run' = RunIdle
       ELSE /\ bench' = [bench EXCEPT !.phase = "timeit", !.s_idx = 1, !.rep = 1]
            /\ run' = StartRun
    /\ UNCHANGED <<naive, opt, win, ctor, ret, last, out, fed, hist, divisor, raised, threads>>

\* mutant of run_strategy_reset: the run does not reset the strategy
run_strategy_no_reset(s, self) == self

\* run_strategy: strategy.reset()
run_strategy_reset(s, self) == reset(s, self)

\* run_strategy: strategy.reset(); total = 0
RunReset ==
    /\ run.pc = "reset"
    /\ SetInstance(Strat, run_strategy_reset(Strat, Instance(Strat)))
    /\ ret' = [ret EXCEPT ![Strat] = <<>>]
    /\ last' = [last EXCEPT ![Strat] = <<>>]
    /\ out' = [out EXCEPT ![Strat] = <<>>]
    /\ fed' = [fed EXCEPT ![Strat] = <<>>]
    /\ hist' = [hist EXCEPT ![Strat] = AfterReset(@)]
    /\ raised' = [raised EXCEPT ![Strat] = "None"]
    /\ run' = [pc |-> "loop", i |-> 0, total |-> 0]
    /\ UNCHANGED <<ctor, divisor, bench, threads>>

\* run_strategy: for t in ticks: total += len(strategy.generate_signals(t))
RunTick ==
    /\ run.pc = "loop"
    /\ run.i < Len(Subset)
    /\ \E r \in {generate_signals(Strat, Instance(Strat), Subset[run.i + 1])} :
          /\ SetInstance(Strat, r.self)
          /\ ret' = [ret EXCEPT ![Strat] = r.ret]
          /\ last' = [last EXCEPT ![Strat] = <<Subset[run.i + 1]>>]
          /\ out' = [out EXCEPT ![Strat] = @ \o OutEntries(r.ret)]
          /\ fed' = [fed EXCEPT ![Strat] = Append(@, Subset[run.i + 1].price)]
          /\ hist' = [hist EXCEPT ![Strat] = AfterGenerate(@, last[Strat], Subset[run.i + 1])]
          /\ divisor' = [divisor EXCEPT ![Strat] = r.divisor]
          /\ raised' = [raised EXCEPT ![Strat] = r.raised]
          /\ run' = [run EXCEPT !.i = @ + 1, !.total = @ + Len(r.ret)]
    /\ UNCHANGED <<ctor, bench, threads>>

\* bench after the strategies loop body ends for the current strategy
NextStrategy(b) ==
    IF b.s_idx < Len(Strategies)
    THEN [b EXCEPT !.s_idx = @ + 1, !.phase = "timeit", !.rep = 1]
    ELSE IF b.n_idx < Len(b.sizes)
    THEN [b EXCEPT !.n_idx = @ + 1, !.phase = "size"]
    ELSE [b EXCEPT !.phase = "done"]

\* the run run_strategy has returned from is followed by another, or by none
Continue(b) ==
    /\ bench' = b
    /\ run' = IF b.phase \in {"timeit", "memory", "cprofile"} THEN StartRun ELSE RunIdle
    /\ UNCHANGED <<naive, opt, win, ctor, ret, last, out, fed, hist, divisor, raised, threads>>

RunDone == run.pc = "loop" /\ run.i = Len(Subset)

\* time_run: one of timeit's repeats of run_strategy returns
TimeRunReturn ==
    /\ bench.phase = "timeit"
    /\ RunDone
    /\ Continue(IF bench.rep < bench.repeats
                THEN [bench EXCEPT !.rep = @ + 1]
                ELSE [bench EXCEPT !.phase = "memory"])

\* peak_memory_run_mb returns; results.append(BenchmarkResult(strat.name, n, t, m));
\* cprofile_run follows when n == cprofile_on_size
PeakMemoryReturn ==
    /\ bench.phase = "memory"
    /\ RunDone
    /\ \E b \in {[bench EXCEPT !.results =
                     Append(@, [strategy_name |-> name(Strat), n_ticks |-> BenchN, total |-> run.total])]} :
          Continue(IF BenchN = bench.cprofile_on_size
                   THEN [b EXCEPT !.phase = "cprofile"]
                   ELSE NextStrategy(b))

\* cprofile_run's run_strategy returns
CprofileReturn ==
    /\ bench.phase = "cprofile"
    /\ RunDone
    /\ Continue(NextStrategy(bench))

NextBench ==
    \/ BenchSize
    \/ RunReset
    \/ RunTick
    \/ TimeRunReturn
    \/ PeakMemoryReturn
    \/ CprofileReturn

SpecBench == InitBench /\ [][NextBench]_vars

\* ------------------------------ threads sharing one windowed instance
\* WindowedMovingAverageStrategy.generate_signals takes no lock. Each thread
\* runs the method one statement at a time; between two statements any other
\* thread may run. With threads.serialized the callers serialize the calls
\* themselves: a call begins only when no other call is under way.
ThreadTicks ==
    {t \in MarketDataPoint : t.symbol = "XYZ" /\ t.timestamp = 1 /\ t.price \in BenchPrices}

\* the window sizes tried with threads: the smallest, and one above it
ThreadWindows == {1, 2}

InitThreads ==
    /\ naive = Naive_init
    /\ opt = Optimized_init
    /\ \E ws \in ThreadWindows :
          /\ ctor = [window_size |-> ws, raised |-> Windowed_init(ws).raised]
          /\ win = Windowed_init(ws).self
    /\ ret = [s \in StrategyNames |-> <<>>]
    /\ last = [s \in StrategyNames |-> <<>>]
    /\ out = [s \in StrategyNames |-> <<>>]
    /\ fed = [s \in StrategyNames |-> <<>>]
    /\ hist = [s \in StrategyNames |-> Constructed]
    /\ divisor = [s \in StrategyNames |-> 1]
    /\ raised = [s \in StrategyNames |-> "None"]
    /\ bench = BenchIdle
    /\ run = RunIdle
    /\ \E b \in BOOLEAN : threads = [ThreadsIdle EXCEPT !.serialized = b]

Frame(th) == threads.frame[th]
Quiet == \A th \in Threads : Frame(th).pc = "idle"

\* thread th moves to statement pc
Goto(th, pc) == threads' = [threads EXCEPT !.frame[th].pc = pc]

\* the call of thread th ends: it returned or raised
Leave(th) == threads' = [threads EXCEPT !.frame[th] = IdleFrame]

\* thread th calls strategy.generate_signals(tick)
ThreadCall(th) ==
    /\ Frame(th).pc = "idle"
    /\ threads.serialized => Quiet
    /\ Len(fed["win"]) < MaxCalls
    /\ \E t \in ThreadTicks :
          threads' = [threads EXCEPT !.frame[th] = [IdleFrame EXCEPT !.pc = "append", !.tick = t]]
    /\ UNCHANGED <<naive, opt, win, ctor, ret, last, out, fed, hist, divisor, raised, bench, run>>

\* self._window.append(tick.price)
ThreadAppend(th) ==
    /\ Frame(th).pc = "append"
    /\ win' = [win EXCEPT !._window = Append(@, Frame(th).tick.price)]
    /\ fed' = [fed EXCEPT !["win"] = Append(@, Frame(th).tick.price)]
    /\ Goto(th, "add")
    /\ UNCHANGED <<naive, opt, ctor, ret, last, out, hist, divisor, raised, bench, run>>

\* self._sum += tick.price
ThreadAdd(th) ==
    /\ Frame(th).pc = "add"
    /\ win' = [win EXCEPT !._sum = fadd(@, Frame(th).tick.price)]
    /\ Goto(th, "check")
    /\ UNCHANGED <<naive, opt, ctor, ret, last, out, fed, hist, divisor, raised, bench, run>>

\* if len(self._window) > self.window_size:
ThreadCheck(th) ==
    /\ Frame(th).pc = "check"
    /\ Goto(th, IF Len(win._window) > win.window_size THEN "popleft" ELSE "div")
    /\ UNCHANGED <<naive, opt, win, ctor, ret, last, out, fed, hist, divisor, raised, bench, run>>

\* old = self._window.popleft(); IndexError on an empty deque
ThreadPopleft(th) ==
    /\ Frame(th).pc = "popleft"
    /\ IF win._window = <<>>
       THEN /\ raised' = [raised EXCEPT !["win"] = "IndexError"]
            /\ Leave(th)
            /\ UNCHANGED win
       ELSE /\ win' = [win EXCEPT !._window = Tail(@)]
            /\ threads' = [threads EXCEPT !.frame[th].pc = "sub",
                                          !.frame[th].old = Head(win._window)]
            /\ UNCHANGED raised
    /\ UNCHANGED <<naive, opt, ctor, ret, last, out, fed, hist, divisor, bench, run>>

\* self._sum -= old
ThreadSub(th) ==
    /\ Frame(th).pc = "sub"
    /\ win' = [win EXCEPT !._sum = fsub(@, Frame(th).old)]
    /\ Goto(th, "div")
    /\ UNCHANGED <<naive, opt, ctor, ret, last, out, fed, hist, divisor, raised, bench, run>>

\* avg = self._sum / len(self._window); ZeroDivisionError on an empty window
ThreadDiv(th) ==
    /\ Frame(th).pc = "div"
    /\ divisor' = [divisor EXCEPT !["win"] = Len(win._window)]
    /\ IF Len(win._window) = 0
       THEN /\ raised' = [raised EXCEPT !["win"] = "ZeroDivisionError"]
            /\ Leave(th)
       ELSE /\ raised' = [raised EXCEPT !["win"] = "None"]
            /\ threads' = [threads EXCEPT !.frame[th].pc = "return",
                                          !.frame[th].avg = fdiv(win._sum, Len(win._window))]
    /\ UNCHANGED <<naive, opt, win, ctor, ret, last, out, fed, hist, bench, run>>

\* return [Signal(...)]
ThreadReturn(th) ==
    /\ Frame(th).pc = "return"
    /\ \E sigs \in {<<Signal(Frame(th).tick, Frame(th).avg)>>} :
          /\ ret' = [ret EXCEPT !["win"] = sigs]
          /\ out' = [out EXCEPT !["win"] = @ \o OutEntries(sigs)]
    /\ last' = [last EXCEPT !["win"] = <<Frame(th).tick>>]
    /\ hist' = [hist EXCEPT !["win"] = AfterGenerate(@, last["win"], Frame(th).tick)]
    /\ Leave(th)
    /\ UNCHANGED <<naive, opt, win, ctor, fed, divisor, raised, bench, run>>

NextThreads ==
    \E th \in Threads :
        \/ ThreadCall(th)
        \/ ThreadAppend(th)
        \/ ThreadAdd(th)
        \/ ThreadCheck(th)
        \/ ThreadPopleft(th)
        \/ ThreadSub(th)
        \/ ThreadDiv(th)
        \/ ThreadReturn(th)

SpecThreads == InitThreads /\ [][NextThreads]_vars

\* the spec's InvalidConfiguration error is the ValueError of __init__
InvalidConfiguration == "ValueError"

Live == ctor.raised = "None"
Used(s) == hist[s].lastOp = "generate_signals"
Actions(s) == {out[s][i].action : i \in 1..Len(out[s])}

\* the sum of xs in exact arithmetic
RECURSIVE ExactSum(_)
ExactSum(xs) == IF xs = <<>> THEN 0 ELSE Head(xs) + ExactSum(Tail(xs))

\* ------------------------------------------------------------------ claims

C2_WindowedReferenceIsWindowMean ==
    (Live /\ Used("win") /\ ret["win"] # <<>>) =>
        ret["win"][1].reference =
            fdiv(sum(LastN(fed["win"], win.window_size)),
                 Len(LastN(fed["win"], win.window_size)))

\* C3: right after reset() an instance is in exactly its constructed state, and
\* the signals of a run that began with reset() are those of a freshly
\* constructed instance fed the same prices.
C3_ResetRestoresConstructedState ==
    Live => \A s \in StrategyNames :
        /\ hist[s].lastOp = "reset" => Instance(s) = Fresh(s)
        /\ hist[s].resetsBefore >= 1 => out[s] = RunFrom(s, Fresh(s), PlainTicks(fed[s]))

\* C3 witness: the windowed instance was fed, reset twice in a row, and fed
\* again past its window size.
C3_Witness ==
    /\ Live
    /\ hist["win"].resetsBefore = 2
    /\ hist["win"].usedBefore
    /\ Len(fed["win"]) > win.window_size
    /\ Len(fed["naive"]) > 1

\* C4: after every generate_signals call the window holds the min(k, n) most
\* recent prices in arrival order, and _sum is the sum of the window's contents.
C4_WindowAndRunningSum ==
    (Live /\ Used("win")) =>
        /\ win._window = LastN(fed["win"], win.window_size)
        /\ win._sum = sum(win._window)

\* the first half of C4 alone: the window's contents
WindowHoldsMostRecent ==
    Live => win._window = LastN(fed["win"], win.window_size)

\* C5: WindowedMovingAverageStrategy(window_size) raises InvalidConfiguration
\* when window_size <= 0, and constructs an instance of that window size
\* when window_size >= 1.
C5_InvalidWindowRejected ==
    /\ ctor.window_size <= 0 => ctor.raised = InvalidConfiguration
    /\ ctor.window_size >= 1 => (ctor.raised = "None" /\ win.window_size = ctor.window_size)

\* C5 witness: construction with window_size = 0 has raised.
C5_Witness == ctor.window_size = 0 /\ ctor.raised = InvalidConfiguration

\* C6: every signal of every strategy has action BUY iff price > reference,
\* SELL iff price < reference and HOLD iff price = reference, and the price is
\* the tick's.
C6_ActionByStrictComparison ==
    \A s \in StrategyNames : \A i \in 1..Len(out[s]) :
        /\ out[s][i].action = "BUY" <=> out[s][i].price > out[s][i].reference
        /\ out[s][i].action = "SELL" <=> out[s][i].price < out[s][i].reference
        /\ out[s][i].action = "HOLD" <=> out[s][i].price = out[s][i].reference
        /\ out[s][i].price = fed[s][i]

\* C6 witness: each strategy has emitted all three actions in one run.
C6_Witness == \A s \in StrategyNames : Actions(s) = {"BUY", "SELL", "HOLD"}

\* C7: every generate_signals call returns a list of exactly one Signal, so the
\* signals collected in a run number the ticks fed.
C7_ExactlyOneSignal ==
    Live => \A s \in StrategyNames :
        /\ Used(s) => Len(ret[s]) = 1
        /\ Len(out[s]) = Len(fed[s])

\* C7 witness: a run past the window size, after a reset.
C7_Witness ==
    /\ Live
    /\ Used("win")
    /\ hist["win"].resetsBefore >= 1
    /\ Len(fed["win"]) = MaxTicks
    /\ win.window_size < MaxTicks

\* C8: in every generate_signals call the divisor of the mean is at least 1 (the
\* history length, _count, the window length), and no call raises.
C8_DivisorAtLeastOne ==
    Live => \A s \in StrategyNames :
        Used(s) =>
            /\ divisor[s] >= 1
            /\ raised[s] = "None"
            /\ divisor["naive"] = Len(naive._prices)
            /\ divisor["opt"] = opt._count
            /\ divisor["win"] = Len(win._window)

\* C8 witness: generate_signals directly after reset(), with window size 1.
C8_Witness ==
    /\ Live
    /\ Used("win")
    /\ hist["win"].resetsBefore >= 1
    /\ Len(fed["win"]) = 1
    /\ win.window_size = 1

\* C10: the actions and references of a run are those of the same prices fed
\* under one symbol and one timestamp, one signal per tick in the order fed.
C10_PricesAloneDecide ==
    Live => \A s \in StrategyNames :
        \E plain \in {RunFrom(s, Fresh(s), PlainTicks(fed[s]))} :
            /\ Len(out[s]) = Len(fed[s])
            /\ Len(plain) = Len(fed[s])
            /\ \A i \in 1..Len(out[s]) :
                  /\ out[s][i].price = fed[s][i]
                  /\ out[s][i].action = plain[i].action
                  /\ out[s][i].reference = plain[i].reference

\* C10 witness: a full run whose ticks changed symbol and went back in time.
C10_Witness ==
    /\ Live
    /\ \A s \in StrategyNames :
          /\ hist[s].shuffled
          /\ Len(fed[s]) = MaxTicks

\* C9: in every run of the benchmark (timeit repeat, peak-memory run, cProfile
\* run) the strategy was reset before its first tick and then fed the prefix's
\* ticks in order, so the signals of the run so far are those of a freshly
\* constructed instance fed the same part of the prefix, one signal per tick.
C9_RunsStartFromReset ==
    run.pc = "loop" =>
        /\ hist[Strat].lastOp = (IF run.i = 0 THEN "reset" ELSE "generate_signals")
        /\ fed[Strat] = [i \in 1..run.i |-> Subset[i].price]
        /\ out[Strat] = RunFrom(Strat, Fresh(Strat), SubSeq(Subset, 1, run.i))
        /\ run.total = run.i

\* C9 witness: the cProfile run of the windowed strategy at the second size has
\* fed the whole prefix, past the window size; the instance was used in the
\* runs before.
C9_Witness ==
    /\ bench.phase = "cprofile"
    /\ bench.n_idx = 2
    /\ Strat = "win"
    /\ RunDone
    /\ hist["win"].usedBefore
    /\ Len(Subset) > win.window_size
    /\ Len(bench.results) > Len(Strategies)

\* C11: the optimized strategy's state is the two scalars _sum and _count;
\* _count is the number of generate_signals calls since the last reset (or
\* construction), _sum is the sum of the prices of those calls (added left to
\* right in floating point, as sum() adds them), and the reference of the signal
\* a call returns is _sum / _count.
C11_CountAndSumSinceReset ==
    /\ DOMAIN opt = {"_sum", "_count"}
    /\ opt._count = Len(fed["opt"])
    /\ opt._sum = sum(fed["opt"])
    /\ Used("opt") =>
          /\ Len(ret["opt"]) = 1
          /\ ret["opt"][1].reference = fdiv(opt._sum, opt._count)

\* C11 witness: the instance was fed, reset, and fed a full run in which the
\* running sum was rounded.
C11_Witness ==
    /\ Used("opt")
    /\ hist["opt"].resetsBefore >= 1
    /\ hist["opt"].usedBefore
    /\ opt._count = MaxTicks
    /\ opt._sum # ExactSum(fed["opt"])

\* C12: when the calls on one windowed instance are serialized, no call
\* raises, and whenever no call is under way the window holds the min(k, n) most
\* recent prices (it was never evicted twice) and _sum is the sum of the
\* window's contents.
C12_SerializedCallsDoNotRace ==
    (threads.serialized /\ Quiet) =>
        /\ raised["win"] = "None"
        /\ win._window = LastN(fed["win"], win.window_size)
        /\ win._sum = sum(win._window)

\* the part of C12 about evictions alone: serialized calls never evict twice,
\* never divide by an empty window and never raise
SerializedNeverEvictsTwice ==
    threads.serialized =>
        /\ raised["win"] = "None"
        /\ Quiet => win._window = LastN(fed["win"], win.window_size)
        /\ \A th \in Threads :
              Frame(th).pc = "div" =>
                  Len(win._window) = Min(win.window_size, Len(fed["win"]))

\* the race of C12: two interleaved calls with window size 1 have both evicted,
\* and the division found the window empty
RaceEvictedTwice ==
    /\ ~threads.serialized
    /\ win.window_size = 1
    /\ Len(fed["win"]) = 2
    /\ win._window = <<>>
    /\ raised["win"] = "ZeroDivisionError"

\* the race of C12 with a larger window: no call is under way and the window
\* holds fewer than the min(k, n) most recent prices
RaceWindowShort ==
    /\ ~threads.serialized
    /\ Quiet
    /\ win.window_size > 1
    /\ Len(win._window) < Min(win.window_size, Len(fed["win"]))

C14_FirstSignalAndUnitWindowHold ==
    Live =>
        /\ \A s \in StrategyNames :
              Len(out[s]) >= 1 =>
                  /\ out[s][1].reference = fed[s][1]
                  /\ out[s][1].action = "HOLD"
        /\ win.window_size = 1 =>
              \A i \in 1..Len(out["win"]) :
                  /\ out["win"][i].reference = fed["win"][i]
                  /\ out["win"][i].action = "HOLD"

\* the first half of C14 alone: the first signal after construction or reset
FirstSignalHolds ==
    Live => \A s \in StrategyNames :
        Len(out[s]) >= 1 =>
            /\ out[s][1].reference = fed[s][1]
            /\ out[s][1].action = "HOLD"

====
